---------------------------- MODULE Spec2Model ----------------------------
(***************************************************************************)
(* Model of the Pune doctors scraper: the Streamlit pipeline (app.py), the *)
(* command-line runner (scraper.py) and the site crawler (crawler.py).     *)
(*                                                                         *)
(* Specifications:                                                         *)
(*   SpecRec       make_recommendation as a function of (rating, count)    *)
(*   SpecExtract   extract_email_and_exp on one page text                  *)
(*   SpecRetry     retry_request, one step per invocation of the operation *)
(*   SpecPage      the per-page email search of crawl_doctor_site          *)
(*   SpecCrawl     crawl_doctor_site, one step per page fetched            *)
(*   SpecPaginate  paginate_text_search, one step per page requested       *)
(*   SpecCache     cached_crawl_site under st.cache_data(ttl)              *)
(*   SpecPools     the details pool and the crawl pool of app.py, counted  *)
(*   SpecApp       one run of app.py                                       *)
(*   LiveApp       SpecApp with every enabled step eventually taken        *)
(*   SpecAppHang   SpecApp against sites that may never answer a crawl     *)
(*   LiveAppHang   SpecAppHang with every enabled step eventually taken    *)
(*   SpecScraper   one run of scraper.py                                   *)
(*   Spec          one run of either program                               *)
(*   Live          Spec with every enabled step eventually taken           *)
(***************************************************************************)
EXTENDS Integers, Sequences, FiniteSets, TLC

VARIABLES
    \* make_recommendation(rating, count) -> rec_out
    rec_rating, rec_count, rec_out,
    \* extract_email_and_exp(text) evaluated in calendar year ex_now -> ex_out
    ex_text, ex_now, ex_out,
    \* retry_request(fn, tries=rt_tries): rt_script[i] is what the i-th
    \* invocation of fn does
    rt_tries, rt_script, rt_attempt, rt_calls, rt_sleeps, rt_state, rt_result,
    \* one page put through the per-page email search of crawl_doctor_site
    pe_page, pe_role, pe_out,
    \* crawl_doctor_site(url): the site crawled, the year, where the call is,
    \* its locals email and years, the subpage links fetched so far and the
    \* number of fetch_html calls
    cr_home, cr_links, cr_site, cr_now, cr_pc, cr_email, cr_years, cr_visited, cr_nfetch,
    \* paginate_text_search(query, total_needed): its locals and where it is
    total_needed, results, token, pages, pg_state,
    \* one run of a pipeline: which program (app.py or scraper.py), where it
    \* is, the index of the next query term, the ids seen, the ids of the
    \* seen-file as loaded and the seen-file itself, the candidates admitted,
    \* the detail futures, the candidates with a detail record, the crawl
    \* futures, the output rows, the ids a detail fetch was issued for (in
    \* order), and the places of the page scraper.py is working through
    prog, pc, combo_idx, seen, cached_ids, cache_file, fetched_places,
    det_state, enriched, crawl_state, rows, detail_calls, places,
    \* the number of st.warning calls of the search loop of app.py
    warnings,
    \* cached_crawl_site under st.cache_data(ttl): the entry kept for each
    \* URL, the time, the number of crawl_doctor_site calls made for each
    \* URL, the number of crawls in progress for each URL and the last
    \* request served
    cc_store, cc_clock, cc_fetch, cc_inflight, cc_ret,
    \* the two worker pools of a run of app.py, by numbers: the preset
    \* selected, the stage, the futures submitted to the pool of the stage,
    \* those a worker is running and those that are done
    pl_preset, pl_stage, pl_n, pl_running, pl_done

recVars == <<rec_rating, rec_count, rec_out>>
exVars == <<ex_text, ex_now, ex_out>>
rtVars == <<rt_tries, rt_script, rt_attempt, rt_calls, rt_sleeps, rt_state, rt_result>>
peVars == <<pe_page, pe_role, pe_out>>
crVars == <<cr_home, cr_links, cr_site, cr_now, cr_pc, cr_email, cr_years, cr_visited, cr_nfetch>>
pgVars == <<total_needed, results, token, pages, pg_state>>
runVars == <<prog, pc, combo_idx, seen, cached_ids, cache_file, fetched_places,
             det_state, enriched, crawl_state, rows, detail_calls, places, warnings>>
ccVars == <<cc_store, cc_clock, cc_fetch, cc_inflight, cc_ret>>
plVars == <<pl_preset, pl_stage, pl_n, pl_running, pl_done>>
vars == <<recVars, exVars, rtVars, peVars, crVars, pgVars, runVars, ccVars, plVars>>

\* Python None for a string-valued and for an integer-valued slot.
None == "None"
NoneInt == 0 - 1

Truthy(s) == s # None /\ s # ""
TruthyInt(n) == n # NoneInt /\ n # 0
\* Python's `a or b` on optional strings
Or(a, b) == IF Truthy(a) THEN a ELSE b

Min(a, b) == IF a < b THEN a ELSE b
Max(a, b) == IF a > b THEN a ELSE b

(***************************************************************************)
(* make_recommendation (app.py). Ratings are in tenths: 45 is 4.5.         *)
(***************************************************************************)
MaxRating == 50
MaxCount == 60
HighRating == 45
HighCount == 50
GoodRating == 40
GoodCount == 10

Ratings == {NoneInt} \cup 0..MaxRating
Counts == {NoneInt} \cup 0..MaxCount

make_recommendation_no_zero(rating, count) ==
    IF rating = NoneInt \/ count = NoneInt THEN "Insufficient data"
    ELSE IF rating >= HighRating /\ count >= HighCount THEN "Highly recommended"
    ELSE IF rating >= GoodRating /\ count >= GoodCount THEN "Recommended"
    ELSE "Consider with caution"

make_recommendation(rating, count) ==
    IF rating = NoneInt \/ count = NoneInt \/ count = 0 THEN "Insufficient data"
    ELSE IF rating >= HighRating /\ count >= HighCount THEN "Highly recommended"
    ELSE IF rating >= GoodRating /\ count >= GoodCount THEN "Recommended"
    ELSE "Consider with caution"

RecIdle == rec_rating = NoneInt /\ rec_count = NoneInt /\ rec_out = "idle"

RecInit ==
    /\ rec_rating \in Ratings
    /\ rec_count \in Counts
    /\ rec_out = "pending"

RecCall ==
    /\ rec_out = "pending"
    /\ rec_out' = make_recommendation(rec_rating, rec_count)
    /\ UNCHANGED <<rec_rating, rec_count>>

(***************************************************************************)
(* Page text and extract_email_and_exp (crawler.py).                       *)
(* A text is a sequence of tokens in reading order. A token is what one of *)
(* the regular expressions matches at that place, or a plain word:         *)
(*   "email"  a standard address (EMAIL_PAT), s                            *)
(*   "obf"    an obfuscated address (OBFUSC_EMAIL_PAT), groups g1 g2 g3    *)
(*   "num1"   "<n>(+) years (of) experience"      EXP_PAT group num1       *)
(*   "num2"   "over <n> years"                    EXP_PAT group num2       *)
(*   "year1"  "since <n>"                         EXP_PAT group year1      *)
(*   "year2"  "practicing since <n>"              EXP_PAT group year2      *)
(***************************************************************************)
Tok(k, s, n) == [k |-> k, s |-> s, g1 |-> "", g2 |-> "", g3 |-> "", n |-> n]
Word == Tok("word", "", 0)
EmailTok(s) == Tok("email", s, 0)
ObfTok(a, b, c) == [k |-> "obf", s |-> "", g1 |-> a, g2 |-> b, g3 |-> c, n |-> 0]
ExpTok(k, n) == Tok(k, "", n)

ExpKinds == {"num1", "num2", "year1", "year2"}

\* index of the first token of the text whose kind is in kinds, 0 when none
\* (re.search returns the leftmost match)
Search(text, kinds) ==
    LET I == { i \in 1..Len(text) : text[i].k \in kinds }
    IN  IF I = {} THEN 0 ELSE CHOOSE i \in I : \A j \in I : i <= j

_norm_obfuscated(m) == m.g1 \o "@" \o m.g2 \o "." \o m.g3

FirstYear == 1900
LastYear == 2099
MinFoundingYear == 1970

\* a mutant: the lower clamp only
_infer_years_no_upper(year, now) ==
    IF MinFoundingYear <= year THEN now - year ELSE NoneInt

_infer_years_from_year(year, now) ==
    IF MinFoundingYear <= year /\ year <= now THEN Max(0, now - year) ELSE NoneInt

ExtractEmail(text) ==
    LET m == Search(text, {"email"})
        ob == Search(text, {"obf"})
    IN  IF m # 0 THEN text[m].s
        ELSE IF ob # 0 THEN _norm_obfuscated(text[ob])
        ELSE None

ExtractYears(text, now) ==
    LET em == Search(text, ExpKinds)
    IN  IF em = 0 THEN NoneInt
        ELSE IF text[em].k \in {"num1", "num2"} THEN text[em].n
        ELSE _infer_years_from_year(text[em].n, now)

extract_email_and_exp(text, now) ==
    IF text = <<>> THEN [email |-> None, years |-> NoneInt]
    ELSE [email |-> ExtractEmail(text), years |-> ExtractYears(text, now)]

NowLo == 2024
NowSpan == 2
Nows == NowLo..(NowLo + NowSpan)
MatchedYears == FirstYear..LastYear

PendingOut == [email |-> "pending", years |-> NoneInt]

\* texts whose only experience match is a year: alone, or after a word
YearTexts ==
    { <<ExpTok(k, y)>> : k \in {"year1", "year2"}, y \in MatchedYears }
    \cup { <<Word, ExpTok("year2", y)>> : y \in MatchedYears }

\* texts with matches for two heuristics, in either order of appearance
\* ("since 2010 ... 15 years of experience")
SampleValue(k) ==
    IF k = "num1" THEN 15 ELSE IF k = "num2" THEN 20 ELSE IF k = "year1" THEN 2010 ELSE 2005
MixedTexts ==
    { <<ExpTok(p[1], SampleValue(p[1])), Word, ExpTok(p[2], SampleValue(p[2]))>> :
        p \in { q \in ExpKinds \X ExpKinds : q[1] # q[2] } }

ExTexts == YearTexts \cup MixedTexts

ExIdle == ex_text = <<>> /\ ex_now = 0 /\ ex_out = [email |-> "idle", years |-> NoneInt]

ExInit ==
    /\ ex_text \in ExTexts
    /\ ex_now \in Nows
    /\ ex_out = PendingOut

ExCall ==
    /\ ex_out = PendingOut
    /\ ex_out' = extract_email_and_exp(ex_text, ex_now)
    /\ UNCHANGED <<ex_text, ex_now>>

(***************************************************************************)
(* retry_request (app.py).  An outcome of one invocation of fn:            *)
(*   "ok"    fn returns the value numbered code                            *)
(*   "http"  fn raises requests.HTTPError with status code                 *)
(*   "net"   fn raises requests.ConnectionError or requests.Timeout        *)
(*   "req"   fn raises another requests.RequestException that is not an    *)
(*           HTTPError (TooManyRedirects, a 200 response whose body is not *)
(*           JSON, an invalid URL)                                         *)
(*   "other" fn raises an exception that is not a RequestException         *)
(* Delays are in tenths of a second.                                       *)
(***************************************************************************)
MaxTries == 3

Outcome(k, c) == [kind |-> k, code |-> c]
RetryableCodes == {429, 500, 502, 503, 504}
Outcomes ==
    { Outcome("ok", 1), Outcome("ok", 2),
      Outcome("http", 429), Outcome("http", 503), Outcome("http", 404),
      Outcome("net", 0), Outcome("req", 0), Outcome("other", 0) }
RuntimeError == Outcome("runtime", 0)
NoOutcome == Outcome("none", 0)

\* a mutant: the same delay before every retry
backoff_sleep_flat(attempt) == 9

backoff_sleep(attempt) == 9 * (attempt + 1)

\* a mutant: gives up one attempt early
MayRetryEarly(attempt, tries) == attempt < tries - 2

MayRetry(attempt, tries) == attempt < tries - 1

\* does retry_request go round again after this failure of this attempt
Retries(o, attempt, tries) ==
    \/ o.kind = "http" /\ o.code \in RetryableCodes /\ MayRetry(attempt, tries)
    \/ o.kind \in {"net", "req"} /\ MayRetry(attempt, tries)

RtIdle ==
    /\ rt_tries = 0 /\ rt_script = <<>> /\ rt_attempt = 0 /\ rt_calls = 0
    /\ rt_sleeps = <<>> /\ rt_state = "idle" /\ rt_result = NoOutcome

RtInit ==
    /\ rt_tries \in 0..MaxTries
    /\ rt_script \in [1..rt_tries -> Outcomes]
    /\ rt_attempt = 0
    /\ rt_calls = 0
    /\ rt_sleeps = <<>>
    /\ rt_state = "running"
    /\ rt_result = NoOutcome

\* one round of the for loop: fn is invoked once
RetryAttempt ==
    /\ rt_state = "running"
    /\ rt_attempt < rt_tries
    /\ LET o == rt_script[rt_attempt + 1] IN
        /\ rt_calls' = rt_calls + 1
        /\ IF o.kind = "ok"
           THEN /\ rt_state' = "returned"
                /\ rt_result' = o
                /\ UNCHANGED <<rt_attempt, rt_sleeps>>
           ELSE IF Retries(o, rt_attempt, rt_tries)
           THEN /\ rt_sleeps' = Append(rt_sleeps, backoff_sleep(rt_attempt))
                /\ rt_attempt' = rt_attempt + 1
                /\ UNCHANGED <<rt_state, rt_result>>
           ELSE /\ rt_state' = "raised"
                /\ rt_result' = o
                /\ UNCHANGED <<rt_attempt, rt_sleeps>>
    /\ UNCHANGED <<rt_tries, rt_script>>

\* the loop ends without a return or a raise (tries = 0)
RetryFallThrough ==
    /\ rt_state = "running"
    /\ rt_attempt >= rt_tries
    /\ rt_state' = "raised"
    /\ rt_result' = RuntimeError
    /\ UNCHANGED <<rt_tries, rt_script, rt_attempt, rt_calls, rt_sleeps>>

(***************************************************************************)
(* Pages and crawl_doctor_site (crawler.py).                               *)
(* A page, as BeautifulSoup presents it:                                   *)
(*   ok      fetch_html returned its text (status 200, body not empty)     *)
(*   mailto  the addresses of its a[href^="mailto:"] anchors, in order     *)
(*   jsonld  its application/ld+json script tags, in order; a tag is the   *)
(*           sequence of its objects, an object is its "email" string      *)
(*           after strip(), or None when it has no string "email"; a tag   *)
(*           that does not parse is the empty sequence                     *)
(*   text    its visible text                                              *)
(***************************************************************************)
\* resp is what session.get does for the URL: "ok" (status 200 and a body),
\* "empty" (status 200, no body), "status" (another status), "error" (a
\* requests.RequestException: no connection, timeout, ...) or "unparsable"
\* (status 200 and a body that BeautifulSoup(html, "html.parser") rejects
\* with an exception, such as a marked section "<![foo[x]]>")
Page(ok, mailto, jsonld, text) ==
    [resp |-> IF ok THEN "ok" ELSE "status", mailto |-> mailto, jsonld |-> jsonld, text |-> text]
DeadPage == Page(FALSE, <<>>, <<>>, <<>>)
EmptyBodyPage == [DeadPage EXCEPT !.resp = "empty"]
UnreachablePage == [DeadPage EXCEPT !.resp = "error"]
BlankPage == Page(TRUE, <<>>, <<>>, <<Word>>)
RejectedPage == [BlankPage EXCEPT !.resp = "unparsable"]

\* a mutant: the status of the response is not looked at
fetch_html_any_status(page) == page.resp \in {"ok", "status"}

\* fetch_html(url) returns the text: the status is 200, the text is not
\* empty and no RequestException was raised; otherwise it returns None
fetch_html(page) ==
    IF page.resp = "error" THEN FALSE
    ELSE page.resp \in {"ok", "unparsable"}

\* BeautifulSoup(html, "html.parser") returns a soup
Parses(page) == page.resp # "unparsable"

\* the strings of the model that EMAIL_PAT matches in full
ValidAddrs == {"m@x.com", "j@x.com", "t@x.com", "s@x.com", "x@y.com"}

\* the loop over the mailto anchors: the first address matching EMAIL_PAT
FirstMailto(hrefs) ==
    LET I == { i \in 1..Len(hrefs) : hrefs[i] \in ValidAddrs }
    IN  IF I = {} THEN None ELSE hrefs[CHOOSE i \in I : \A j \in I : i <= j]

IsStr(e) == e # None

RECURSIVE Flatten(_)
Flatten(tags) ==
    IF tags = <<>> THEN <<>> ELSE SelectSeq(Head(tags), IsStr) \o Flatten(Tail(tags))

\* homepage: every string email of every tag is collected, the first is used
HomeJsonLd(tags) ==
    LET jsonld_emails == Flatten(tags)
    IN  IF jsonld_emails # <<>> THEN jsonld_emails[1] ELSE None

\* subpage: the first string email of a tag is taken and the tags stop at the
\* first non-empty one
RECURSIVE SubJsonLd(_, _)
SubJsonLd(tags, email) ==
    IF tags = <<>> THEN email
    ELSE LET strs == SelectSeq(Head(tags), IsStr)
             e == IF strs # <<>> THEN strs[1] ELSE email
         IN  IF Truthy(e) THEN e ELSE SubJsonLd(Tail(tags), e)

\* the homepage part of crawl_doctor_site
HomeResolve(page, now) ==
    LET r == extract_email_and_exp(page.text, now)
    IN  [email |-> Or(Or(FirstMailto(page.mailto), HomeJsonLd(page.jsonld)), r.email),
         years |-> r.years]

\* one round of the subpage loop on a page that was fetched
SubResolve(page, email, years, now) ==
    LET e1 == IF ~Truthy(email) /\ FirstMailto(page.mailto) # None
              THEN FirstMailto(page.mailto) ELSE email
        e2 == IF ~Truthy(e1) THEN SubJsonLd(page.jsonld, e1) ELSE e1
        r == extract_email_and_exp(page.text, now)
    IN  IF Truthy(e2) /\ TruthyInt(years)
        THEN [email |-> e2, years |-> years]
        ELSE [email |-> IF ~Truthy(e2) /\ Truthy(r.email) THEN r.email ELSE e2,
              years |-> IF years = NoneInt /\ r.years # NoneInt THEN r.years ELSE years]

\* the pages put through the per-page search: every combination of what the
\* four tiers can hold
MailtoChoices == { <<>>, <<"m@x.com">>, <<"m@x.com?subject=hi", "m@x.com">>, <<"m@x.com?subject=hi">> }
JsonLdChoices ==
    { <<>>, << <<"j@x.com">> >>, << <<None, "j@x.com">> >>, << <<>>, <<"j@x.com">> >>,
      << <<"">>, <<"j@x.com">> >>, << <<"", "j@x.com">> >>, << <<"">> >> }
TextChoices ==
    { <<Word>>, <<>>, <<Word, EmailTok("t@x.com")>>, <<ObfTok("x", "y", "com")>>,
      <<ObfTok("x", "y", "com"), Word, EmailTok("t@x.com")>> }
PePages == { Page(TRUE, m, j, t) : m \in MailtoChoices, j \in JsonLdChoices, t \in TextChoices }

PeIdle == pe_page = DeadPage /\ pe_role = "idle" /\ pe_out = "idle"

PeInit ==
    /\ pe_page \in PePages
    /\ pe_role \in {"home", "sub"}
    /\ pe_out = "pending"

PeHome ==
    /\ pe_out = "pending" /\ pe_role = "home"
    /\ pe_out' = HomeResolve(pe_page, NowLo).email
    /\ UNCHANGED <<pe_page, pe_role>>

PeSub ==
    /\ pe_out = "pending" /\ pe_role = "sub"
    /\ pe_out' = SubResolve(pe_page, None, NoneInt, NowLo).email
    /\ UNCHANGED <<pe_page, pe_role>>

(***************************************************************************)
(* A site: a homepage, the set of qualifying links found on it (after      *)
(* urljoin; link 0 is the homepage's own URL) and what each link serves.   *)
(***************************************************************************)
MaxLinks == 10
SubpageLimit == 8

HomePages ==
    { DeadPage, EmptyBodyPage, UnreachablePage, BlankPage, RejectedPage,
      Page(TRUE, <<"m@x.com">>, <<>>, <<Word>>),
      Page(TRUE, <<>>, <<>>, <<ExpTok("num1", 12)>>),
      Page(TRUE, <<>>, <<>>, <<ExpTok("year1", NowLo)>>),
      Page(TRUE, <<"m@x.com">>, <<>>, <<ObfTok("x", "y", "com"), ExpTok("num2", 20)>>) }

\* what the links of a site serve: nothing of use anywhere ("bare"), or a
\* different page behind each of the first links ("rich")
SubPage(site, link) ==
    IF link = 0 THEN BlankPage
    ELSE IF site = "bare" THEN BlankPage
    ELSE IF link = 1 THEN DeadPage
    ELSE IF link = 2 THEN Page(TRUE, <<"s@x.com">>, <<>>, <<Word>>)
    ELSE IF link = 3 THEN Page(TRUE, <<>>, <<>>, <<EmailTok("t@x.com"), ExpTok("num1", 7)>>)
    ELSE IF link = 4 THEN Page(TRUE, <<>>, << <<"j@x.com">> >>, <<ExpTok("year1", 2010)>>)
    ELSE IF link = 5 THEN UnreachablePage
    ELSE IF link = 6 THEN RejectedPage
    ELSE BlankPage

LinkSets == { 1..n : n \in 0..MaxLinks } \cup { 0..n : n \in 0..MaxLinks }

CrIdle ==
    /\ cr_home = DeadPage /\ cr_links = {} /\ cr_site = "none" /\ cr_now = 0
    /\ cr_pc = "idle" /\ cr_email = None /\ cr_years = NoneInt
    /\ cr_visited = {} /\ cr_nfetch = 0

CrInit ==
    /\ cr_home \in HomePages
    /\ cr_links \in LinkSets
    /\ cr_site \in {"bare", "rich"}
    /\ cr_now = NowLo
    /\ cr_pc = "start"
    /\ cr_email = None
    /\ cr_years = NoneInt
    /\ cr_visited = {}
    /\ cr_nfetch = 0

\* a mutant: the candidate list is not cut
MoreToVisitUncut(visited, candidates) == visited # candidates

\* list(candidates)[:8] has an entry not yet reached
MoreToVisit(visited, candidates) ==
    visited # candidates /\ Cardinality(visited) < SubpageLimit

CrResult == [email |-> cr_email, years_of_experience |-> cr_years]

\* what cached_crawl_site hands to the pipeline: the dict of the crawl, or
\* {} when crawl_doctor_site raised
CrDelivered == IF cr_pc = "raised" THEN [email |-> None, years_of_experience |-> NoneInt] ELSE CrResult

\* fetch_html(url) fails: the empty result is returned at once
CrawlHomeDead ==
    /\ cr_pc = "start"
    /\ ~fetch_html(cr_home)
    /\ cr_nfetch' = cr_nfetch + 1
    /\ cr_pc' = "done"
    /\ UNCHANGED <<cr_home, cr_links, cr_site, cr_now, cr_email, cr_years, cr_visited>>

\* the homepage is fetched and BeautifulSoup raises on it
CrawlHomeRaises ==
    /\ cr_pc = "start"
    /\ fetch_html(cr_home)
    /\ ~Parses(cr_home)
    /\ cr_nfetch' = cr_nfetch + 1
    /\ cr_pc' = "raised"
    /\ UNCHANGED <<cr_home, cr_links, cr_site, cr_now, cr_email, cr_years, cr_visited>>

\* the homepage is fetched and searched, the candidate links are collected
CrawlHome ==
    /\ cr_pc = "start"
    /\ fetch_html(cr_home)
    /\ Parses(cr_home)
    /\ cr_nfetch' = cr_nfetch + 1
    /\ cr_email' = HomeResolve(cr_home, cr_now).email
    /\ cr_years' = HomeResolve(cr_home, cr_now).years
    /\ cr_pc' = "links"
    /\ UNCHANGED <<cr_home, cr_links, cr_site, cr_now, cr_visited>>

\* one round of the loop over list(candidates)[:8]; the order of a set of
\* strings is not fixed, so the next link is any link not yet reached
CrawlSubpage ==
    /\ cr_pc = "links"
    /\ MoreToVisit(cr_visited, cr_links)
    /\ ~(Truthy(cr_email) /\ TruthyInt(cr_years))
    /\ \E link \in cr_links \ cr_visited :
        LET page == SubPage(cr_site, link)
            r == SubResolve(page, cr_email, cr_years, cr_now)
        IN  /\ Parses(page)
            /\ cr_visited' = cr_visited \cup {link}
            /\ cr_nfetch' = cr_nfetch + 1
            /\ cr_email' = IF fetch_html(page) THEN r.email ELSE cr_email
            /\ cr_years' = IF fetch_html(page) THEN r.years ELSE cr_years
    /\ UNCHANGED <<cr_home, cr_links, cr_site, cr_now, cr_pc>>

\* one round of the loop in which BeautifulSoup raises on the subpage: no
\* handler is around it and the exception leaves crawl_doctor_site
CrawlSubpageRaises ==
    /\ cr_pc = "links"
    /\ MoreToVisit(cr_visited, cr_links)
    /\ ~(Truthy(cr_email) /\ TruthyInt(cr_years))
    /\ \E link \in cr_links \ cr_visited :
        /\ ~Parses(SubPage(cr_site, link))
        /\ cr_visited' = cr_visited \cup {link}
    /\ cr_nfetch' = cr_nfetch + 1
    /\ cr_pc' = "raised"
    /\ UNCHANGED <<cr_home, cr_links, cr_site, cr_now, cr_email, cr_years>>

\* the loop ends (break, or the list is used up) and the result is returned
CrawlReturn ==
    /\ cr_pc = "links"
    /\ \/ ~MoreToVisit(cr_visited, cr_links)
       \/ Truthy(cr_email) /\ TruthyInt(cr_years)
    /\ cr_pc' = "done"
    /\ UNCHANGED <<cr_home, cr_links, cr_site, cr_now, cr_email, cr_years, cr_visited, cr_nfetch>>

(***************************************************************************)
(* The search provider and paginate_text_search (app.py).                  *)
(* A candidate is known by its id; a page of results is a sequence of ids, *)
(* in which an id may come more than once.                                 *)
(***************************************************************************)
TargetTotal == 2
NumCombos == 2
MaxNeeded == 3
MaxPage == 2
PageCap == 20
PageCeiling == 25

Ids == 1..(TargetTotal + 1)
\* total_needed of the call in the run loop: 40 in app.py, scaled here to the
\* scaled target
PerTermNeeded == TargetTotal

SeqsUpTo(S, n) == UNION { [1..k -> S] : k \in 0..n }

PageSize(remaining) == Max(1, Min(Min(PageCap, remaining), PageCap))

\* the places of one response to a request for page_size places
Responses(page_size) == SeqsUpTo(Ids, Min(page_size, MaxPage))

\* a mutant: one page only
KeepPagingOnce(n, needed, pgs) == n < needed /\ pgs < 1

\* the condition of the while loop
KeepPaging(n, needed, pgs) == n < needed /\ pgs < PageCeiling

\* results[:total_needed]
PaginateResult == SubSeq(results, 1, Min(Len(results), total_needed))

\* no call of paginate_text_search is under way: its locals do not exist
PgIdle ==
    /\ total_needed = 0
    /\ results = <<>>
    /\ token = FALSE
    /\ pages = 0
    /\ pg_state = "idle"

PgInit ==
    /\ total_needed \in 1..MaxNeeded
    /\ results = <<>>
    /\ token = FALSE
    /\ pages = 0
    /\ pg_state = "loop"

\* one round of the while loop: retry_request(text_search_page, ...) returns
\* a page
PageOk ==
    /\ pg_state = "loop"
    /\ \E pl \in Responses(PageSize(total_needed - Len(results))), tk \in BOOLEAN :
        /\ results' = results \o pl
        /\ pages' = pages + 1
        /\ token' = tk
        /\ pg_state' = IF tk /\ KeepPaging(Len(results \o pl), total_needed, pages + 1)
                       THEN "loop" ELSE "returned"
    /\ UNCHANGED total_needed

\* one round of the while loop: retry_request raises, and so does
\* paginate_text_search
PageFail ==
    /\ pg_state = "loop"
    /\ pg_state' = "raised"
    /\ UNCHANGED <<total_needed, results, token, pages>>

(***************************************************************************)
(* Candidates, detail records, crawl results and rows.                     *)
(***************************************************************************)
\* the search summary p of a candidate: odd ids come with address, phone
\* and website, even ids with the id alone
Summary(id) ==
    IF id % 2 = 1
    THEN [id |-> id, formattedAddress |-> "addr-p", phone |-> "phone-p", websiteUri |-> "site-p"]
    ELSE [id |-> id, formattedAddress |-> None, phone |-> None, websiteUri |-> None]

\* what the detail endpoint can answer for an id
DetKinds == {"full", "bare"}
DetRecord(id, kind) ==
    IF kind = "full"
    THEN [id |-> id, formattedAddress |-> "addr-d", phone |-> "phone-d", websiteUri |-> "site-d",
          rating |-> 46, userRatingCount |-> 60]
    ELSE [id |-> id, formattedAddress |-> None, phone |-> None, websiteUri |-> None,
          rating |-> NoneInt, userRatingCount |-> NoneInt]

\* what cached_crawl_site can answer: {} or the dict of crawl_doctor_site
Extra(email, years) == [email |-> email, years_of_experience |-> years]
EmptyExtra == Extra(None, NoneInt)
Extras == { EmptyExtra, Extra("m@x.com", 12) }

Website(p, det) == Or(Or(det.websiteUri, p.websiteUri), "N/A")

\* a mutant: the address of the detail record or nothing
RowAddressDetailOnly(p, det) == Or(det.formattedAddress, "N/A")

RowAddress(p, det) == Or(Or(det.formattedAddress, p.formattedAddress), "N/A")
RowPhone(p, det) == Or(Or(det.phone, p.phone), "N/A")

\* the row of app.py; id is the candidate the row was built for
Row(p, det, website, extra) ==
    [id |-> p.id,
     address |-> RowAddress(p, det),
     phone |-> RowPhone(p, det),
     website |-> website,
     email |-> Or(extra.email, "N/A"),
     years |-> IF extra.years_of_experience # NoneInt
               THEN ToString(extra.years_of_experience) ELSE "N/A",
     recommendation |-> make_recommendation(det.rating, det.userRatingCount)]

\* the row of scraper.py
ScraperRow(pid, det) ==
    [id |-> pid,
     address |-> IF det.formattedAddress = None THEN "" ELSE det.formattedAddress,
     phone |-> Or(det.phone, ""),
     website |-> IF det.websiteUri = None THEN "" ELSE det.websiteUri,
     email |-> "",
     years |-> "",
     recommendation |-> "No strong signal"]

NoFutures == [id \in Ids |-> "none"]

RunIdle ==
    /\ prog = "none" /\ pc = "idle" /\ combo_idx = 0 /\ seen = {} /\ cached_ids = {}
    /\ cache_file = {} /\ fetched_places = <<>> /\ det_state = NoFutures
    /\ enriched = <<>> /\ crawl_state = NoFutures /\ rows = <<>>
    /\ detail_calls = <<>> /\ places = <<>>
    /\ warnings = 0

(***************************************************************************)
(* The run of app.py.                                                      *)
(***************************************************************************)
DetailsThreads == 2
CrawlWorkers == 2

AppInit ==
    /\ prog = "app"
    /\ pc = "search"
    /\ combo_idx = 0
    /\ seen = {}
    /\ cache_file \in {{}, {1}}
    /\ cached_ids = cache_file
    /\ fetched_places = <<>>
    /\ det_state = NoFutures
    /\ enriched = <<>>
    /\ crawl_state = NoFutures
    /\ rows = <<>>
    /\ detail_calls = <<>>
    /\ places = <<>>
    /\ warnings = 0

\* a mutant: the seen set is not consulted
AdmissibleUnseen(pid, sn, cached) == pid \notin cached

\* the admission test of the run loop
Admissible(pid, sn, cached) == pid \notin sn /\ pid \notin cached

\* the for loop over a batch: the seen set and the candidates after it
RECURSIVE Admit(_, _, _, _)
Admit(batch, sn, fp, cached) ==
    IF batch = <<>> THEN [seen |-> sn, fetched |-> fp]
    ELSE IF Admissible(Head(batch), sn, cached)
    THEN IF Len(fp) + 1 >= TargetTotal
         THEN [seen |-> sn \cup {Head(batch)}, fetched |-> Append(fp, Head(batch))]
         ELSE Admit(Tail(batch), sn \cup {Head(batch)}, Append(fp, Head(batch)), cached)
    ELSE Admit(Tail(batch), sn, fp, cached)

Searching == Len(fetched_places) < TargetTotal /\ combo_idx < NumCombos

\* the while loop takes the next combo and calls paginate_text_search
AppStartTerm ==
    /\ prog = "app" /\ pc = "search"
    /\ Searching
    /\ combo_idx' = combo_idx + 1
    /\ pc' = "paginate"
    /\ total_needed' = PerTermNeeded
    /\ results' = <<>>
    /\ token' = FALSE
    /\ pages' = 0
    /\ pg_state' = "loop"
    /\ UNCHANGED <<prog, seen, cached_ids, cache_file, fetched_places, det_state,
                   enriched, crawl_state, rows, detail_calls, places>>
    /\ UNCHANGED warnings

\* paginate_text_search returned its batch: the admission loop
AppAdmit ==
    /\ prog = "app" /\ pc = "paginate"
    /\ pg_state = "returned"
    /\ LET a == Admit(PaginateResult, seen, fetched_places, cached_ids)
       IN  /\ seen' = a.seen
           /\ fetched_places' = a.fetched
    /\ pc' = "search"
    /\ total_needed' = 0 /\ results' = <<>> /\ token' = FALSE /\ pages' = 0
    /\ pg_state' = "idle"
    /\ UNCHANGED <<prog, combo_idx, cached_ids, cache_file, det_state, enriched,
                   crawl_state, rows, detail_calls, places>>
    /\ UNCHANGED warnings

\* paginate_text_search raised: warning, continue
\* a run that kept the pages an aborted term had fetched
AppTermFailedKeepsPages ==
    /\ prog = "app" /\ pc = "paginate"
    /\ pg_state = "raised"
    /\ LET a == Admit(PaginateResult, seen, fetched_places, cached_ids)
       IN  /\ seen' = a.seen
           /\ fetched_places' = a.fetched
    /\ pc' = "search"
    /\ total_needed' = 0 /\ results' = <<>> /\ token' = FALSE /\ pages' = 0
    /\ pg_state' = "idle"
    /\ UNCHANGED <<prog, combo_idx, cached_ids, cache_file, det_state, enriched,
                   crawl_state, rows, detail_calls, places>>
    /\ warnings' = warnings + 1

AppTermFailed ==
    /\ prog = "app" /\ pc = "paginate"
    /\ pg_state = "raised"
    /\ pc' = "search"
    /\ total_needed' = 0 /\ results' = <<>> /\ token' = FALSE /\ pages' = 0
    /\ pg_state' = "idle"
    /\ UNCHANGED <<prog, combo_idx, seen, cached_ids, cache_file, fetched_places,
                   det_state, enriched, crawl_state, rows, detail_calls, places>>
    /\ warnings' = warnings + 1

\* a mutant: a run that fetched nothing ends like a run with rows
AppNoResultsSilent ==
    /\ prog = "app" /\ pc = "search"
    /\ ~Searching
    /\ fetched_places = <<>>
    /\ pc' = "done"
    /\ UNCHANGED <<prog, combo_idx, seen, cached_ids, cache_file, fetched_places,
                   det_state, enriched, crawl_state, rows, detail_calls, places, warnings>>
    /\ UNCHANGED pgVars

\* the search loop is over and nothing was fetched
AppNoResults ==
    /\ prog = "app" /\ pc = "search"
    /\ ~Searching
    /\ fetched_places = <<>>
    /\ pc' = "no_results"
    /\ UNCHANGED <<prog, combo_idx, seen, cached_ids, cache_file, fetched_places,
                   det_state, enriched, crawl_state, rows, detail_calls, places>>
    /\ UNCHANGED pgVars
    /\ UNCHANGED warnings

Range(f) == { f[i] : i \in DOMAIN f }

\* the search loop is over: the seen-file is written (a failed write is
\* passed over) and a detail future is submitted for every candidate
AppSubmitDetails ==
    /\ prog = "app" /\ pc = "search"
    /\ ~Searching
    /\ fetched_places # <<>>
    /\ cached_ids' = cached_ids \cup Range(fetched_places)
    /\ cache_file' \in {cached_ids \cup Range(fetched_places), cache_file}
    /\ det_state' = [id \in Ids |-> IF id \in Range(fetched_places) THEN "queued" ELSE "none"]
    /\ detail_calls' = detail_calls \o fetched_places
    /\ pc' = "details"
    /\ UNCHANGED <<prog, combo_idx, seen, fetched_places, enriched, crawl_state, rows, places>>
    /\ UNCHANGED pgVars
    /\ UNCHANGED warnings

\* the futures that hold a worker of their pool
Running(state) == { id \in Ids : state[id] \in {"running", "hung"} }

\* a worker of the details pool takes a queued future
DetailStart(id) ==
    /\ prog = "app" /\ pc = "details"
    /\ det_state[id] = "queued"
    /\ Cardinality(Running(det_state)) < DetailsThreads
    /\ det_state' = [det_state EXCEPT ![id] = "running"]
    /\ UNCHANGED <<prog, pc, combo_idx, seen, cached_ids, cache_file, fetched_places,
                   enriched, crawl_state, rows, detail_calls, places>>
    /\ UNCHANGED pgVars
    /\ UNCHANGED warnings

\* the future of id ends with a detail record and as_completed hands it over
DetailOk(id) ==
    /\ prog = "app" /\ pc = "details"
    /\ det_state[id] = "running"
    /\ \E kind \in DetKinds :
        LET p == Summary(id)
            det == DetRecord(id, kind)
        IN  enriched' = Append(enriched, [id |-> id, kind |-> kind, website |-> Website(p, det)])
    /\ det_state' = [det_state EXCEPT ![id] = "ok"]
    /\ UNCHANGED <<prog, pc, combo_idx, seen, cached_ids, cache_file, fetched_places,
                   crawl_state, rows, detail_calls, places>>
    /\ UNCHANGED pgVars
    /\ UNCHANGED warnings

\* a mutant: the exception of the future is not caught
DetailFailedAborts(id) ==
    /\ prog = "app" /\ pc = "details"
    /\ det_state[id] = "running"
    /\ det_state' = [det_state EXCEPT ![id] = "fail"]
    /\ pc' = "crashed"
    /\ UNCHANGED <<prog, combo_idx, seen, cached_ids, cache_file, fetched_places,
                   enriched, crawl_state, rows, detail_calls, places>>
    /\ UNCHANGED pgVars
    /\ UNCHANGED warnings

\* the future of id ends with an exception (retry_request gave up): the
\* failure is reported and the candidate is left out
DetailFailed(id) ==
    /\ prog = "app" /\ pc = "details"
    /\ det_state[id] = "running"
    /\ det_state' = [det_state EXCEPT ![id] = "fail"]
    /\ UNCHANGED <<prog, pc, combo_idx, seen, cached_ids, cache_file, fetched_places,
                   enriched, crawl_state, rows, detail_calls, places>>
    /\ UNCHANGED pgVars
    /\ UNCHANGED warnings

EnrichedIds == { enriched[i].id : i \in DOMAIN enriched }
EntryOf(id) == enriched[CHOOSE i \in DOMAIN enriched : enriched[i].id = id]

\* every detail future was handed over: the crawls are submitted
AppSubmitCrawls ==
    /\ prog = "app" /\ pc = "details"
    /\ \A id \in Ids : det_state[id] \in {"none", "ok", "fail"}
    /\ crawl_state' = [id \in Ids |-> IF id \in EnrichedIds THEN "queued" ELSE "none"]
    /\ pc' = "crawls"
    /\ UNCHANGED <<prog, combo_idx, seen, cached_ids, cache_file, fetched_places,
                   det_state, enriched, rows, detail_calls, places>>
    /\ UNCHANGED pgVars
    /\ UNCHANGED warnings

\* a worker of the crawl pool takes a queued future
CrawlStart(id) ==
    /\ prog = "app" /\ pc = "crawls"
    /\ crawl_state[id] = "queued"
    /\ Cardinality(Running(crawl_state)) < CrawlWorkers
    /\ crawl_state' = [crawl_state EXCEPT ![id] = "running"]
    /\ UNCHANGED <<prog, pc, combo_idx, seen, cached_ids, cache_file, fetched_places,
                   det_state, enriched, rows, detail_calls, places>>
    /\ UNCHANGED pgVars
    /\ UNCHANGED warnings

\* crawl_or_empty ends (cached_crawl_site lets no exception out) and
\* as_completed hands the future over: the row is assembled and appended
CrawlDone(id) ==
    /\ prog = "app" /\ pc = "crawls"
    /\ crawl_state[id] = "running"
    /\ LET en == EntryOf(id)
           p == Summary(id)
           det == DetRecord(id, en.kind)
       IN  \E extra \in (IF en.website = "N/A" THEN {EmptyExtra} ELSE Extras) :
              rows' = Append(rows, Row(p, det, en.website, extra))
    /\ crawl_state' = [crawl_state EXCEPT ![id] = "done"]
    /\ UNCHANGED <<prog, pc, combo_idx, seen, cached_ids, cache_file, fetched_places,
                   det_state, enriched, detail_calls, places>>
    /\ UNCHANGED pgVars
    /\ UNCHANGED warnings

\* the crawl of id does not return: the site keeps the connection of one of
\* its fetches alive (the timeout of fetch_html bounds the wait for the next
\* byte, not the fetch); the future never completes and as_completed, which
\* has no timeout, never hands it over
CrawlHangs(id) ==
    /\ prog = "app" /\ pc = "crawls"
    /\ crawl_state[id] = "running"
    /\ EntryOf(id).website # "N/A"
    /\ crawl_state' = [crawl_state EXCEPT ![id] = "hung"]
    /\ UNCHANGED <<prog, pc, combo_idx, seen, cached_ids, cache_file, fetched_places,
                   det_state, enriched, rows, detail_calls, places>>
    /\ UNCHANGED pgVars
    /\ UNCHANGED warnings

\* every crawl future was handed over: the table is shown, or "No rows built"
AppFinish ==
    /\ prog = "app" /\ pc = "crawls"
    /\ \A id \in Ids : crawl_state[id] \in {"none", "done"}
    /\ pc' = IF rows = <<>> THEN "no_rows" ELSE "done"
    /\ UNCHANGED <<prog, combo_idx, seen, cached_ids, cache_file, fetched_places,
                   det_state, enriched, crawl_state, rows, detail_calls, places>>
    /\ UNCHANGED pgVars
    /\ UNCHANGED warnings

(***************************************************************************)
(* The run of scraper.py: one text_search per query, then page after page  *)
(* while a token comes back; a detail fetch for every new id, in line.     *)
(***************************************************************************)
ScrInit ==
    /\ prog = "scraper"
    /\ pc = "query"
    /\ combo_idx = 0
    /\ seen = {}
    /\ cache_file = {}
    /\ cached_ids = {}
    /\ fetched_places = <<>>
    /\ det_state = NoFutures
    /\ enriched = <<>>
    /\ crawl_state = NoFutures
    /\ rows = <<>>
    /\ detail_calls = <<>>
    /\ places = <<>>
    /\ warnings = 0

ScrResponses == SeqsUpTo(Ids, MaxPage)

\* the first page of the next query
ScrSearchOk ==
    /\ prog = "scraper" /\ pc = "query"
    /\ combo_idx < NumCombos
    /\ combo_idx' = combo_idx + 1
    /\ \E pl \in ScrResponses, tk \in BOOLEAN : places' = pl /\ token' = tk
    /\ pc' = "places"
    /\ UNCHANGED <<prog, seen, cached_ids, cache_file, fetched_places, det_state,
                   enriched, crawl_state, rows, detail_calls>>
    /\ UNCHANGED <<total_needed, results, pages, pg_state>>
    /\ UNCHANGED warnings

\* text_search raises requests.HTTPError (raise_for_status): warning, continue
ScrSearchHttpError ==
    /\ prog = "scraper" /\ pc = "query"
    /\ combo_idx < NumCombos
    /\ combo_idx' = combo_idx + 1
    /\ UNCHANGED <<prog, pc, seen, cached_ids, cache_file, fetched_places, det_state,
                   enriched, crawl_state, rows, detail_calls, places>>
    /\ UNCHANGED pgVars
    /\ UNCHANGED warnings

\* requests.post raises another exception (connection, timeout): nothing
\* catches it and run() ends with it
ScrSearchNetError ==
    /\ prog = "scraper" /\ pc = "query"
    /\ combo_idx < NumCombos
    /\ combo_idx' = combo_idx + 1
    /\ pc' = "crashed"
    /\ UNCHANGED <<prog, seen, cached_ids, cache_file, fetched_places, det_state,
                   enriched, crawl_state, rows, detail_calls, places>>
    /\ UNCHANGED pgVars
    /\ UNCHANGED warnings

\* for p in places: an id already seen is passed over
ScrPlaceSeen ==
    /\ prog = "scraper" /\ pc = "places"
    /\ places # <<>>
    /\ Head(places) \in seen
    /\ places' = Tail(places)
    /\ UNCHANGED <<prog, pc, combo_idx, seen, cached_ids, cache_file, fetched_places,
                   det_state, enriched, crawl_state, rows, detail_calls>>
    /\ UNCHANGED pgVars
    /\ UNCHANGED warnings

\* for p in places: a new id, its details arrive, its row is appended
ScrPlaceOk ==
    /\ prog = "scraper" /\ pc = "places"
    /\ places # <<>>
    /\ Head(places) \notin seen
    /\ seen' = seen \cup {Head(places)}
    /\ detail_calls' = Append(detail_calls, Head(places))
    /\ \E kind \in DetKinds :
        rows' = Append(rows, ScraperRow(Head(places), DetRecord(Head(places), kind)))
    /\ places' = Tail(places)
    /\ UNCHANGED <<prog, pc, combo_idx, cached_ids, cache_file, fetched_places,
                   det_state, enriched, crawl_state>>
    /\ UNCHANGED pgVars
    /\ UNCHANGED warnings

\* for p in places: a new id, place_details raises HTTPError: warning, continue
ScrPlaceHttpError ==
    /\ prog = "scraper" /\ pc = "places"
    /\ places # <<>>
    /\ Head(places) \notin seen
    /\ seen' = seen \cup {Head(places)}
    /\ detail_calls' = Append(detail_calls, Head(places))
    /\ places' = Tail(places)
    /\ UNCHANGED <<prog, pc, combo_idx, cached_ids, cache_file, fetched_places,
                   det_state, enriched, crawl_state, rows>>
    /\ UNCHANGED pgVars
    /\ UNCHANGED warnings

\* for p in places: a new id, requests.get raises another exception
ScrPlaceNetError ==
    /\ prog = "scraper" /\ pc = "places"
    /\ places # <<>>
    /\ Head(places) \notin seen
    /\ seen' = seen \cup {Head(places)}
    /\ detail_calls' = Append(detail_calls, Head(places))
    /\ pc' = "crashed"
    /\ UNCHANGED <<prog, combo_idx, cached_ids, cache_file, fetched_places,
                   det_state, enriched, crawl_state, rows, places>>
    /\ UNCHANGED pgVars
    /\ UNCHANGED warnings

\* the page is worked through and a token came with it: the next page
ScrNextPageOk ==
    /\ prog = "scraper" /\ pc = "places"
    /\ places = <<>> /\ token
    /\ \E pl \in ScrResponses, tk \in BOOLEAN : places' = pl /\ token' = tk
    /\ UNCHANGED <<prog, pc, combo_idx, seen, cached_ids, cache_file, fetched_places,
                   det_state, enriched, crawl_state, rows, detail_calls>>
    /\ UNCHANGED <<total_needed, results, pages, pg_state>>
    /\ UNCHANGED warnings

\* the next page raises HTTPError: warning, break
ScrNextPageHttpError ==
    /\ prog = "scraper" /\ pc = "places"
    /\ places = <<>> /\ token
    /\ pc' = "query"
    /\ UNCHANGED <<prog, combo_idx, seen, cached_ids, cache_file, fetched_places,
                   det_state, enriched, crawl_state, rows, detail_calls, places>>
    /\ UNCHANGED pgVars
    /\ UNCHANGED warnings

\* the next page raises another exception
ScrNextPageNetError ==
    /\ prog = "scraper" /\ pc = "places"
    /\ places = <<>> /\ token
    /\ pc' = "crashed"
    /\ UNCHANGED <<prog, combo_idx, seen, cached_ids, cache_file, fetched_places,
                   det_state, enriched, crawl_state, rows, detail_calls, places>>
    /\ UNCHANGED pgVars
    /\ UNCHANGED warnings

\* the page is worked through and no token came with it: break
ScrEndQuery ==
    /\ prog = "scraper" /\ pc = "places"
    /\ places = <<>> /\ ~token
    /\ pc' = "query"
    /\ UNCHANGED <<prog, combo_idx, seen, cached_ids, cache_file, fetched_places,
                   det_state, enriched, crawl_state, rows, detail_calls, places>>
    /\ UNCHANGED pgVars
    /\ UNCHANGED warnings

\* every query is done: the rows are written to the workbook
ScrFinish ==
    /\ prog = "scraper" /\ pc = "query"
    /\ combo_idx >= NumCombos
    /\ pc' = "done"
    /\ UNCHANGED <<prog, combo_idx, seen, cached_ids, cache_file, fetched_places,
                   det_state, enriched, crawl_state, rows, detail_calls, places>>
    /\ UNCHANGED pgVars
    /\ UNCHANGED warnings

(***************************************************************************)
(* cached_crawl_site (app.py): crawl_doctor_site behind st.cache_data with *)
(* a time to live.  The decorator keeps the value the function returned    *)
(* for a URL and serves it, without calling the function, until the entry  *)
(* is older than the time to live; the function itself turns an exception  *)
(* of the crawl and a falsy result into {}.                                *)
(***************************************************************************)
\* the time to live, in ticks of the clock, and the length of the day
CacheTtl == 2
MaxClock == 5
\* the most crawls of one URL looked at
MaxCrawls == 3

Urls == {"u1", "u2"}

\* what crawl_doctor_site does for a URL: a dict with values, the dict of
\* two None (the empty result), or an exception
CrawlOutcomes == {"found", "empty", "raised"}

\* the value cached_crawl_site returns for an outcome of the crawl
CachedValue(outcome) ==
    IF outcome = "found" THEN [keys |-> 2, email |-> "m@x.com", years_of_experience |-> 12]
    ELSE IF outcome = "empty" THEN [keys |-> 2, email |-> None, years_of_experience |-> NoneInt]
    ELSE [keys |-> 0, email |-> None, years_of_experience |-> NoneInt]

NoEntry == [has |-> FALSE, value |-> CachedValue("raised"), at |-> 0]
NoRequest == [url |-> "none", hit |-> FALSE, value |-> CachedValue("raised")]

CcIdle ==
    /\ cc_store = [u \in Urls |-> NoEntry]
    /\ cc_clock = 0
    /\ cc_fetch = [u \in Urls |-> 0]
    /\ cc_inflight = [u \in Urls |-> 0]
    /\ cc_ret = NoRequest

\* a mutant: only a result that found something is served from the cache
CacheHitNonEmpty(u) ==
    /\ cc_store[u].has
    /\ cc_clock < cc_store[u].at + CacheTtl
    /\ cc_store[u].value.email # None

\* the decorator finds an entry for u that has not expired
CacheHit(u) ==
    /\ cc_store[u].has
    /\ cc_clock < cc_store[u].at + CacheTtl

\* time passes
CacheTick ==
    /\ cc_clock < MaxClock
    /\ cc_clock' = cc_clock + 1
    /\ UNCHANGED <<cc_store, cc_fetch, cc_inflight, cc_ret>>

\* a request for u is served from the cache
CacheServe(u) ==
    /\ CacheHit(u)
    /\ cc_ret' = [url |-> u, hit |-> TRUE, value |-> cc_store[u].value]
    /\ UNCHANGED <<cc_store, cc_clock, cc_fetch, cc_inflight>>

\* a request for u finds no entry: crawl_doctor_site(u) is called (two
\* workers of the crawl pool may be at it for the same URL)
CacheMiss(u) ==
    /\ ~CacheHit(u)
    /\ cc_fetch[u] < MaxCrawls
    /\ cc_fetch' = [cc_fetch EXCEPT ![u] = @ + 1]
    /\ cc_inflight' = [cc_inflight EXCEPT ![u] = @ + 1]
    /\ UNCHANGED <<cc_store, cc_clock, cc_ret>>

\* the crawl of u concludes, with a result or with an exception, and the
\* value cached_crawl_site returns is stored
CacheConclude(u) ==
    /\ cc_inflight[u] > 0
    /\ \E outcome \in CrawlOutcomes :
        /\ cc_store' = [cc_store EXCEPT ![u] =
                          [has |-> TRUE, value |-> CachedValue(outcome), at |-> cc_clock]]
        /\ cc_ret' = [url |-> u, hit |-> FALSE, value |-> CachedValue(outcome)]
    /\ cc_inflight' = [cc_inflight EXCEPT ![u] = @ - 1]
    /\ UNCHANGED <<cc_clock, cc_fetch>>

(***************************************************************************)
(* The worker pools of app.py by numbers.  A preset sets details_threads   *)
(* and crawl_threads; the details pool is ThreadPoolExecutor(max_workers=  *)
(* details_threads), the crawl pool ThreadPoolExecutor(max_workers=12).    *)
(* A pool starts a worker for a submitted future while fewer than          *)
(* max_workers futures are running.                                        *)
(***************************************************************************)
\* the most futures submitted to a pool
MaxFutures == 13

TurboDetails == 32
TurboCrawls == 12
BalancedDetails == 20
BalancedCrawls == 8
CarefulDetails == 12
CarefulCrawls == 6
CrawlPoolSize == 12

Presets == {"Turbo (max)", "Balanced", "Careful"}

details_threads(preset) ==
    IF preset = "Turbo (max)" THEN TurboDetails
    ELSE IF preset = "Balanced" THEN BalancedDetails ELSE CarefulDetails

crawl_threads(preset) ==
    IF preset = "Turbo (max)" THEN TurboCrawls
    ELSE IF preset = "Balanced" THEN BalancedCrawls ELSE CarefulCrawls

\* max_workers of the pool of a stage
max_workers(stage, preset) ==
    IF stage = "details" THEN details_threads(preset) ELSE CrawlPoolSize

PlIdle ==
    /\ pl_preset = "none" /\ pl_stage = "idle" /\ pl_n = 0 /\ pl_running = 0 /\ pl_done = 0

\* the details pool is entered with a future for every candidate
PoolInit ==
    /\ pl_preset \in Presets
    /\ pl_stage = "details"
    /\ pl_n \in 1..MaxFutures
    /\ pl_running = 0
    /\ pl_done = 0

\* a worker of the pool takes a future that waits
PoolStart ==
    /\ pl_stage \in {"details", "crawls"}
    /\ pl_running + pl_done < pl_n
    /\ pl_running < max_workers(pl_stage, pl_preset)
    /\ pl_running' = pl_running + 1
    /\ UNCHANGED <<pl_preset, pl_stage, pl_n, pl_done>>

\* a running future ends
PoolFinish ==
    /\ pl_stage \in {"details", "crawls"}
    /\ pl_running > 0
    /\ pl_running' = pl_running - 1
    /\ pl_done' = pl_done + 1
    /\ UNCHANGED <<pl_preset, pl_stage, pl_n>>

\* every detail future is done: the crawl pool is entered with a future for
\* every candidate whose detail fetch succeeded
PoolCrawls ==
    /\ pl_stage = "details"
    /\ pl_done = pl_n
    /\ pl_stage' = "crawls"
    /\ pl_n' \in 0..pl_n
    /\ pl_running' = 0
    /\ pl_done' = 0
    /\ UNCHANGED pl_preset

\* every crawl future is done
PoolEnd ==
    /\ pl_stage = "crawls"
    /\ pl_done = pl_n
    /\ pl_stage' = "end"
    /\ UNCHANGED <<pl_preset, pl_n, pl_running, pl_done>>

(***************************************************************************)
(* Specifications                                                          *)
(***************************************************************************)
fnVars == <<recVars, exVars, rtVars, peVars, crVars, ccVars, plVars>>
FnIdle == RecIdle /\ ExIdle /\ RtIdle /\ PeIdle /\ CrIdle /\ CcIdle /\ PlIdle

InitRec == RecInit /\ ExIdle /\ RtIdle /\ PeIdle /\ CrIdle /\ PgIdle /\ RunIdle /\ CcIdle /\ PlIdle
NextRec == RecCall /\ UNCHANGED <<exVars, rtVars, peVars, crVars, pgVars, runVars, ccVars, plVars>>
SpecRec == InitRec /\ [][NextRec]_vars

InitExtract == ExInit /\ RecIdle /\ RtIdle /\ PeIdle /\ CrIdle /\ PgIdle /\ RunIdle /\ CcIdle /\ PlIdle
NextExtract == ExCall /\ UNCHANGED <<recVars, rtVars, peVars, crVars, pgVars, runVars, ccVars, plVars>>
SpecExtract == InitExtract /\ [][NextExtract]_vars

InitRetry == RtInit /\ RecIdle /\ ExIdle /\ PeIdle /\ CrIdle /\ PgIdle /\ RunIdle /\ CcIdle /\ PlIdle
NextRetry ==
    \/ RetryAttempt /\ UNCHANGED <<recVars, exVars, peVars, crVars, pgVars, runVars, ccVars, plVars>>
    \/ RetryFallThrough /\ UNCHANGED <<recVars, exVars, peVars, crVars, pgVars, runVars, ccVars, plVars>>
SpecRetry == InitRetry /\ [][NextRetry]_vars

InitPage == PeInit /\ RecIdle /\ ExIdle /\ RtIdle /\ CrIdle /\ PgIdle /\ RunIdle /\ CcIdle /\ PlIdle
NextPage ==
    \/ PeHome /\ UNCHANGED <<recVars, exVars, rtVars, crVars, pgVars, runVars, ccVars, plVars>>
    \/ PeSub /\ UNCHANGED <<recVars, exVars, rtVars, crVars, pgVars, runVars, ccVars, plVars>>
SpecPage == InitPage /\ [][NextPage]_vars

InitCrawl == CrInit /\ RecIdle /\ ExIdle /\ RtIdle /\ PeIdle /\ PgIdle /\ RunIdle /\ CcIdle /\ PlIdle
NextCrawl ==
    \/ CrawlHomeDead /\ UNCHANGED <<recVars, exVars, rtVars, peVars, pgVars, runVars, ccVars, plVars>>
    \/ CrawlHome /\ UNCHANGED <<recVars, exVars, rtVars, peVars, pgVars, runVars, ccVars, plVars>>
    \/ CrawlHomeRaises /\ UNCHANGED <<recVars, exVars, rtVars, peVars, pgVars, runVars, ccVars, plVars>>
    \/ CrawlSubpageRaises /\ UNCHANGED <<recVars, exVars, rtVars, peVars, pgVars, runVars, ccVars, plVars>>
    \/ CrawlSubpage /\ UNCHANGED <<recVars, exVars, rtVars, peVars, pgVars, runVars, ccVars, plVars>>
    \/ CrawlReturn /\ UNCHANGED <<recVars, exVars, rtVars, peVars, pgVars, runVars, ccVars, plVars>>
SpecCrawl == InitCrawl /\ [][NextCrawl]_vars

\* requests to cached_crawl_site over a day
InitCache == CcIdle /\ RecIdle /\ ExIdle /\ RtIdle /\ PeIdle /\ CrIdle /\ PgIdle /\ RunIdle /\ PlIdle
NextCache ==
    \/ CacheTick /\ UNCHANGED <<recVars, exVars, rtVars, peVars, crVars, pgVars, runVars, plVars>>
    \/ \E u \in Urls : CacheServe(u) /\ UNCHANGED <<recVars, exVars, rtVars, peVars, crVars, pgVars, runVars, plVars>>
    \/ \E u \in Urls : CacheMiss(u) /\ UNCHANGED <<recVars, exVars, rtVars, peVars, crVars, pgVars, runVars, plVars>>
    \/ \E u \in Urls : CacheConclude(u) /\ UNCHANGED <<recVars, exVars, rtVars, peVars, crVars, pgVars, runVars, plVars>>
SpecCache == InitCache /\ [][NextCache]_vars

\* the two pools of one run, for every preset and number of candidates
InitPools == PoolInit /\ RecIdle /\ ExIdle /\ RtIdle /\ PeIdle /\ CrIdle /\ PgIdle /\ RunIdle /\ CcIdle
NextPools ==
    \/ PoolStart /\ UNCHANGED <<recVars, exVars, rtVars, peVars, crVars, pgVars, runVars, ccVars>>
    \/ PoolFinish /\ UNCHANGED <<recVars, exVars, rtVars, peVars, crVars, pgVars, runVars, ccVars>>
    \/ PoolCrawls /\ UNCHANGED <<recVars, exVars, rtVars, peVars, crVars, pgVars, runVars, ccVars>>
    \/ PoolEnd /\ UNCHANGED <<recVars, exVars, rtVars, peVars, crVars, pgVars, runVars, ccVars>>
SpecPools == InitPools /\ [][NextPools]_vars

\* paginate_text_search alone, for every total_needed
InitPaginate == PgInit /\ RunIdle /\ FnIdle
NextPaginate ==
    \/ PageOk /\ UNCHANGED <<runVars, fnVars>>
    \/ PageFail /\ UNCHANGED <<runVars, fnVars>>
SpecPaginate == InitPaginate /\ [][NextPaginate]_vars

\* one run of app.py
InitApp == AppInit /\ PgIdle /\ FnIdle
NextApp ==
    \/ AppStartTerm /\ UNCHANGED fnVars
    \/ PageOk /\ UNCHANGED <<runVars, fnVars>>
    \/ PageFail /\ UNCHANGED <<runVars, fnVars>>
    \/ AppAdmit /\ UNCHANGED fnVars
    \/ AppTermFailed /\ UNCHANGED fnVars
    \/ AppNoResults /\ UNCHANGED fnVars
    \/ AppSubmitDetails /\ UNCHANGED fnVars
    \/ \E id \in Ids : DetailStart(id) /\ UNCHANGED fnVars
    \/ \E id \in Ids : DetailOk(id) /\ UNCHANGED fnVars
    \/ \E id \in Ids : DetailFailed(id) /\ UNCHANGED fnVars
    \/ AppSubmitCrawls /\ UNCHANGED fnVars
    \/ \E id \in Ids : CrawlStart(id) /\ UNCHANGED fnVars
    \/ \E id \in Ids : CrawlDone(id) /\ UNCHANGED fnVars
    \/ AppFinish /\ UNCHANGED fnVars
SpecApp == InitApp /\ [][NextApp]_vars
\* the pools and the main thread keep running: a step that can be taken is
\* taken
LiveApp == SpecApp /\ WF_vars(NextApp)

\* one run of app.py against sites that may keep a crawl from returning
NextAppHang ==
    \/ NextApp
    \/ \E id \in Ids : CrawlHangs(id) /\ UNCHANGED fnVars
SpecAppHang == InitApp /\ [][NextAppHang]_vars
LiveAppHang == SpecAppHang /\ WF_vars(NextAppHang)

\* one run of scraper.py
InitScraper == ScrInit /\ PgIdle /\ FnIdle
NextScraper ==
    \/ ScrSearchOk /\ UNCHANGED fnVars
    \/ ScrSearchHttpError /\ UNCHANGED fnVars
    \/ ScrSearchNetError /\ UNCHANGED fnVars
    \/ ScrPlaceSeen /\ UNCHANGED fnVars
    \/ ScrPlaceOk /\ UNCHANGED fnVars
    \/ ScrPlaceHttpError /\ UNCHANGED fnVars
    \/ ScrPlaceNetError /\ UNCHANGED fnVars
    \/ ScrNextPageOk /\ UNCHANGED fnVars
    \/ ScrNextPageHttpError /\ UNCHANGED fnVars
    \/ ScrNextPageNetError /\ UNCHANGED fnVars
    \/ ScrEndQuery /\ UNCHANGED fnVars
    \/ ScrFinish /\ UNCHANGED fnVars
SpecScraper == InitScraper /\ [][NextScraper]_vars

\* one run of either program
Init == InitApp \/ InitScraper
Next == NextApp \/ NextScraper
Spec == Init /\ [][Next]_vars
\* the program keeps running and the provider keeps answering: a step that
\* can be taken is taken
Live == Spec /\ WF_vars(Next)

(***************************************************************************)
(* C10: make_recommendation returns exactly one of the four tiers for      *)
(* every (rating, count): "Highly recommended" when rating >= 4.5 and      *)
(* count >= 50; else "Recommended" when rating >= 4.0 and count >= 10;     *)
(* else "Consider with caution" for a non-null rating with count > 0;      *)
(* "Insufficient data" when rating is null or count is null or zero.       *)
(***************************************************************************)
Tiers == {"Highly recommended", "Recommended", "Consider with caution", "Insufficient data"}

RecommendationTable ==
    rec_out # "pending" =>
        /\ rec_out \in Tiers
        /\ (rec_rating = NoneInt \/ rec_count = NoneInt \/ rec_count = 0)
              <=> rec_out = "Insufficient data"
        /\ (rec_rating # NoneInt /\ rec_count # NoneInt /\ rec_rating >= 45 /\ rec_count >= 50)
              <=> rec_out = "Highly recommended"
        /\ (rec_rating # NoneInt /\ rec_count # NoneInt /\ rec_rating >= 40 /\ rec_count >= 10
               /\ ~(rec_rating >= 45 /\ rec_count >= 50))
              <=> rec_out = "Recommended"
        /\ (rec_rating # NoneInt /\ rec_count > 0
               /\ ~(rec_rating >= 40 /\ rec_count >= 10))
              <=> rec_out = "Consider with caution"

\* rating 4.6 with 60 reviews has been rated
RecommendationWitness ==
    /\ rec_rating = 46
    /\ rec_count = 60
    /\ rec_out = "Highly recommended"

(***************************************************************************)
(* C9: for every matched year Y and current year NOW the year-based        *)
(* experience is absent when Y < 1970 or Y > NOW and NOW - Y otherwise,    *)
(* never negative; Y = 2010 with NOW = 2024 gives 14.                      *)
(***************************************************************************)
YearOf(text) == text[Len(text)].n

YearBasedExperience ==
    (ex_out # PendingOut /\ ex_text \in YearTexts) =>
        LET y == YearOf(ex_text) IN
        /\ (y < 1970 \/ y > ex_now) => ex_out.years = NoneInt
        /\ (1970 <= y /\ y <= ex_now) => (ex_out.years = ex_now - y /\ ex_out.years >= 0)

YearBasedWitness ==
    /\ ex_text = <<ExpTok("year2", 2010)>>
    /\ ex_now = 2024
    /\ ex_out.years = 14

(***************************************************************************)
(* C3: if the operation fails with a retryable condition exactly k times,  *)
(* k < tries, and then succeeds, retry_request returns that successful     *)
(* result and the operation is invoked exactly k + 1 times.                *)
(***************************************************************************)
RetryableFailure(o) ==
    \/ o.kind = "http" /\ o.code \in RetryableCodes
    \/ o.kind = "net"

\* the script fails retryably k times and then succeeds
FailsThenSucceeds(k) ==
    /\ k < rt_tries
    /\ \A i \in 1..k : RetryableFailure(rt_script[i])
    /\ rt_script[k + 1].kind = "ok"

RetryLaw ==
    \A k \in 0..MaxTries :
        (rt_state # "idle" /\ FailsThenSucceeds(k)) =>
            /\ rt_calls <= k + 1
            /\ rt_state # "raised"
            /\ rt_state = "returned" => (rt_result = rt_script[k + 1] /\ rt_calls = k + 1)

RetryLawWitness ==
    /\ rt_tries = 3
    /\ FailsThenSucceeds(2)
    /\ rt_state = "returned"
    /\ rt_calls = 3

(***************************************************************************)
(* C7: the email resolved for one page is the one of the highest tier      *)
(* present on the page, in the order mailto anchor > JSON-LD email field > *)
(* plain-text standard email > obfuscated pattern (normalized).            *)
(***************************************************************************)
NoEmpty(e) == IF e = "" THEN None ELSE e
IsEmail(e) == e # None /\ e # ""

MailtoTier(page) ==
    LET valid == SelectSeq(page.mailto, LAMBDA h : h \in ValidAddrs)
    IN  IF valid = <<>> THEN None ELSE valid[1]

JsonLdTier(page) ==
    LET given == SelectSeq(Flatten(page.jsonld), IsEmail)
    IN  IF given = <<>> THEN None ELSE given[1]

TextTier(page) ==
    LET found == SelectSeq(page.text, LAMBDA t : t.k = "email")
    IN  IF found = <<>> THEN None ELSE found[1].s

ObfuscatedTier(page) ==
    LET found == SelectSeq(page.text, LAMBDA t : t.k = "obf")
    IN  IF found = <<>> THEN None ELSE "x@y.com"

HighestTier(page) ==
    IF MailtoTier(page) # None THEN MailtoTier(page)
    ELSE IF JsonLdTier(page) # None THEN JsonLdTier(page)
    ELSE IF TextTier(page) # None THEN TextTier(page)
    ELSE ObfuscatedTier(page)

EmailPriority ==
    pe_out \notin {"idle", "pending"} => NoEmpty(pe_out) = HighestTier(pe_page)

\* the named case: a mailto anchor and an obfuscated address on one page
MailtoOverObfuscated ==
    (pe_out \notin {"idle", "pending"}
        /\ MailtoTier(pe_page) # None /\ ObfuscatedTier(pe_page) # None)
      => pe_out = MailtoTier(pe_page)

(***************************************************************************)
(* C8: whatever the number of qualifying links on the homepage, one crawl  *)
(* fetches at most 8 subpages and at most 9 pages in all, also when both   *)
(* fields stay unresolved.                                                 *)
(***************************************************************************)
CrawlBound ==
    /\ Cardinality(cr_visited) <= 8
    /\ cr_nfetch <= 9
    /\ cr_nfetch = Cardinality(cr_visited) + (IF cr_pc \in {"links", "done", "raised"} THEN 1 ELSE 0)

\* a crawl of a homepage with more than 8 links has ended with 8 subpages
\* fetched and neither field resolved
CrawlBoundWitness ==
    /\ cr_pc = "done"
    /\ Cardinality(cr_links) > 8
    /\ Cardinality(cr_visited) = 8
    /\ cr_nfetch = 9
    /\ cr_email = None /\ cr_years = NoneInt

(***************************************************************************)
(* C1: whatever the batches, with ids repeated inside a batch and across   *)
(* query terms, a detail fetch is issued at most once for an id and the    *)
(* rows hold at most one row for an id.                                    *)
(***************************************************************************)
NoDup(seq) == \A i, j \in DOMAIN seq : i # j => seq[i] # seq[j]
RowIds == [i \in DOMAIN rows |-> rows[i].id]
RowsOf(id) == { i \in DOMAIN rows : rows[i].id = id }

DedupInvariant ==
    /\ NoDup(fetched_places)
    /\ NoDup(detail_calls)
    /\ NoDup(RowIds)

\* the second term of a run of app.py brings, twice, the id admitted from
\* the first term
DedupWitness ==
    /\ prog = "app" /\ pc = "paginate" /\ combo_idx = 2
    /\ pg_state = "returned"
    /\ PaginateResult = <<1, 1>>
    /\ fetched_places = <<1>>
    /\ seen = {1}

(***************************************************************************)
(* C2: paginate_text_search returns at most total_needed candidates, and   *)
(* exactly total_needed unless a response came without continuation token  *)
(* or the 25th page was fetched first.                                     *)
(***************************************************************************)
PaginateBound ==
    pg_state = "returned" =>
        /\ Len(PaginateResult) <= total_needed
        /\ \/ Len(PaginateResult) = total_needed
           \/ ~token
           \/ pages = 25

\* the ceiling ends a call: 25 pages, a token on the last, the target missed
PaginateWitness ==
    /\ pg_state = "returned"
    /\ pages = 25
    /\ token
    /\ Len(PaginateResult) < total_needed

(***************************************************************************)
(* C4: whichever admitted candidates fail in their detail fetch, every     *)
(* other admitted candidate whose detail fetch succeeds yields exactly one *)
(* row, and the run reaches its end.                                       *)
(***************************************************************************)
RunEnded == pc \in {"done", "no_results", "no_rows"}

DetailFailureIsolation ==
    /\ [](RunEnded => \A id \in Ids : det_state[id] = "ok" => Cardinality(RowsOf(id)) = 1)
    /\ []((RunEnded /\ \E id \in Ids : det_state[id] = "ok") => pc = "done")
    /\ <>RunEnded

\* a run has ended with one detail fetch failed and a row for another
DetailFailureWitness ==
    /\ pc = "done"
    /\ \E id \in Ids : det_state[id] = "fail"
    /\ \E id \in Ids : det_state[id] = "ok" /\ Cardinality(RowsOf(id)) = 1

(***************************************************************************)
(* C5: as claimed, every admitted candidate yields one row once its detail *)
(* resolution has concluded, a failed detail fetch included.               *)
(***************************************************************************)
Admitted == Range(fetched_places)

Preferred(a, b) == IF a # None THEN a ELSE IF b # None THEN b ELSE "N/A"

PageFetchFails ==
    \/ PageFail
    \/ ScrSearchHttpError
    \/ ScrSearchNetError
    \/ ScrNextPageHttpError
    \/ ScrNextPageNetError

RunGoesOn ==
    /\ pc' # "crashed"
    /\ seen' = seen
    /\ fetched_places' = fetched_places
    /\ rows' = rows

PageFailureEndsTermOnly ==
    /\ [][PageFetchFails => RunGoesOn]_vars
    /\ [][(prog = "app" /\ pg_state = "raised") => (pc' = "search" /\ RunGoesOn)]_vars

\* the part of app.py
AppPageFailureEndsTermOnly ==
    /\ [][(prog = "app" /\ PageFail) => RunGoesOn]_vars
    /\ [][(prog = "app" /\ pg_state = "raised") => (pc' = "search" /\ RunGoesOn)]_vars

(***************************************************************************)
(* C11: every row appended to the output is structurally complete: no     *)
(* column value is empty, blank or null; a field no source supplies is     *)
(* the marker "N/A".                                                       *)
(***************************************************************************)
Blank(v) == v \in {"", " ", None}

RowComplete(r) ==
    /\ ~Blank(r.address) /\ ~Blank(r.phone) /\ ~Blank(r.website)
    /\ ~Blank(r.email) /\ ~Blank(r.years) /\ ~Blank(r.recommendation)

\* C11: in every run, of app.py or of scraper.py, every row of the output
\* has a non-empty, non-blank, non-null value in each column
RowsComplete == \A i \in 1..Len(rows) : RowComplete(rows[i])

\* the rows of app.py are complete
AppRowsComplete == prog = "app" => RowsComplete

(***************************************************************************)
(* C12: two executions of crawl_doctor_site against identical homepage and *)
(* subpage content, in the same year, return identical (email, years)      *)
(* pairs.  Two executions on the same content differ in nothing but the    *)
(* order in which list(candidates) yields the links, so the claim says     *)
(* that every execution returns what the execution that takes the links    *)
(* in ascending order returns.                                             *)
(***************************************************************************)
RECURSIVE CrawlInOrder(_, _, _, _, _, _)
CrawlInOrder(email, years, visited, links, site, now) ==
    IF ~MoreToVisit(visited, links) \/ (Truthy(email) /\ TruthyInt(years))
    THEN [email |-> email, years_of_experience |-> years]
    ELSE LET rest == links \ visited
             link == CHOOSE l \in rest : \A k \in rest : l <= k
             page == SubPage(site, link)
             r == SubResolve(page, email, years, now)
         IN  CrawlInOrder(IF fetch_html(page) THEN r.email ELSE email,
                          IF fetch_html(page) THEN r.years ELSE years,
                          visited \cup {link}, links, site, now)

ReferenceCrawl ==
    IF ~fetch_html(cr_home) THEN Extra(None, NoneInt)
    ELSE CrawlInOrder(HomeResolve(cr_home, cr_now).email,
                      HomeResolve(cr_home, cr_now).years,
                      {}, cr_links, cr_site, cr_now)

\* C12: the pair a crawl returns is fixed by the content of the site and the
\* year: it is the pair of every other execution on the same content
ExtractionDeterminism == cr_pc = "done" => CrResult = ReferenceCrawl

\* with at most one link that serves anything the order cannot matter
ExtractionDeterminismBare ==
    (cr_pc = "done" /\ cr_site = "bare") => CrResult = ReferenceCrawl

(***************************************************************************)
(* C13: a crawl that does not return never blocks completion of the run:   *)
(* the run eventually reaches its completed state with a row for every     *)
(* candidate with a resolved detail record, the row of a candidate whose   *)
(* crawl was abandoned carrying "N/A" for email and years.                 *)
(***************************************************************************)
Hung == { id \in Ids : crawl_state[id] = "hung" }

CompletedWithRows ==
    /\ RunEnded
    /\ \A id \in EnrichedIds : \E i \in 1..Len(rows) : rows[i].id = id
    /\ \A id \in Hung : \A i \in 1..Len(rows) :
          rows[i].id = id => rows[i].email = "N/A" /\ rows[i].years = "N/A"

\* C13: whatever the crawls do, returning or not, the run eventually is
\* completed and has a row for every candidate with a detail record
HungCrawlNeverBlocks == <>CompletedWithRows

\* a run in which a crawl does not return never ends
HungCrawlBlocks == [](Hung # {} => ~RunEnded)

(***************************************************************************)
(* C14: once a crawl of URL u has concluded, with a result, with an empty  *)
(* result or with an exception, every later request for u before the time  *)
(* to live has run out returns the cached result and performs no network   *)
(* fetch.                                                                  *)
(***************************************************************************)
\* a crawl of u has concluded and its entry is younger than the time to live
ConcludedWithinTtl(u) == cc_store[u].has /\ cc_clock - cc_store[u].at < CacheTtl

\* a step in which a new request for u is taken up
RequestFor(u) ==
    \/ cc_fetch'[u] # cc_fetch[u]
    \/ /\ cc_ret' = [url |-> u, hit |-> TRUE, value |-> cc_ret'.value]
       /\ cc_inflight' = cc_inflight /\ cc_clock' = cc_clock

HomepageFailed == cr_home.resp \in {"status", "empty", "error"}

\* C15: a crawl whose homepage fetch failed has ended with the empty result
\* after one fetch and no subpage
HomepageFailureIsEmpty ==
    HomepageFailed =>
        /\ cr_pc \in {"start", "done"}
        /\ cr_email = None /\ cr_years = NoneInt
        /\ cr_visited = {}
        /\ cr_nfetch = (IF cr_pc = "done" THEN 1 ELSE 0)

\* the crawl of a site that does not answer, with qualifying links known for
\* it, has returned
HomepageFailureWitness ==
    /\ cr_pc = "done" /\ cr_home.resp = "error" /\ cr_links # {} /\ cr_nfetch = 1

(***************************************************************************)
(* C16: if every query term fails, the run ends in the explicit no-data    *)
(* state with zero rows, having issued no detail fetch and no crawl; and   *)
(* the no-data state is never reached in a run that admitted a candidate   *)
(* whose detail fetch succeeded.                                           *)
(***************************************************************************)
EveryTermFailed == prog = "app" /\ warnings = NumCombos
NoData == pc \in {"no_results", "no_rows"}

\* C16: once the last term has failed after all the others, the run is in
\* the search loop or in the no-data state, without rows, detail fetches or
\* crawls, and it reaches the no-data state; a run with a detail record is
\* never in the no-data state
TotalFailure ==
    /\ [](EveryTermFailed =>
            /\ pc \in {"search", "no_results"}
            /\ rows = <<>> /\ detail_calls = <<>>
            /\ det_state = NoFutures /\ crawl_state = NoFutures)
    /\ (EveryTermFailed ~> pc = "no_results")
    /\ []((\E id \in Ids : det_state[id] = "ok") => ~NoData)

\* a run whose terms all failed has ended
TotalFailureWitness == EveryTermFailed /\ pc = "no_results"

(***************************************************************************)
(* C17: retry_request retries only on the transient set: an operation      *)
(* failing with an HTTP status outside {429, 500, 502, 503, 504} is not    *)
(* invoked again, no backoff delay occurs and that failure is raised;      *)
(* connectivity/timeout errors and statuses in the set are the only        *)
(* failures followed by another attempt.                                   *)
(***************************************************************************)
\* the step of retry_request in which fn is invoked
Invokes == rt_state = "running" /\ rt_attempt < rt_tries /\ rt_calls' = rt_calls + 1

PermanentStatus(o) == o.kind = "http" /\ o.code \notin {429, 500, 502, 503, 504}
Transient(o) == (o.kind = "http" /\ o.code \in {429, 500, 502, 503, 504}) \/ o.kind = "net"

\* C17: an invocation that fails with a status outside the set ends the
\* call with that failure and without a delay, and only an invocation that
\* fails with a status of the set or with a connectivity/timeout error is
\* followed by another attempt
RetryOnlyTransient ==
    [][Invokes =>
         LET o == rt_script[rt_attempt + 1]
         IN  /\ PermanentStatus(o) =>
                   /\ rt_state' = "raised" /\ rt_result' = o
                   /\ rt_sleeps' = rt_sleeps /\ rt_attempt' = rt_attempt
             /\ rt_attempt' # rt_attempt => Transient(o)]_vars

\* the part of C17 about HTTP statuses: a status outside the set is raised
\* at once
PermanentStatusRaised ==
    [][Invokes =>
         LET o == rt_script[rt_attempt + 1]
         IN  PermanentStatus(o) =>
                /\ rt_state' = "raised" /\ rt_result' = o
                /\ rt_sleeps' = rt_sleeps /\ rt_attempt' = rt_attempt]_vars

(***************************************************************************)
(* C18: when every attempt fails with a retryable condition, retry_request *)
(* invokes the operation exactly `tries` times, sleeps only between        *)
(* attempts (never after the last one) with a delay that strictly          *)
(* increases with the attempt index, and raises the failure observed on    *)
(* the last attempt.                                                       *)
(***************************************************************************)
EveryAttemptFails ==
    rt_state # "idle" /\ rt_tries >= 1 /\ \A i \in 1..rt_tries : RetryableFailure(rt_script[i])

StrictlyIncreasing(seq) == \A i, j \in DOMAIN seq : i < j => seq[i] < seq[j]

\* C18: with nothing but retryable failures the call never returns a value,
\* sleeps once after each failed attempt but the last, each time longer, and
\* ends after `tries` invocations by raising the last failure
RetryExhaustion ==
    EveryAttemptFails =>
        /\ rt_state # "returned"
        /\ rt_calls <= rt_tries
        /\ Len(rt_sleeps) = Min(rt_calls, rt_tries - 1)
        /\ StrictlyIncreasing(rt_sleeps)
        /\ rt_state = "raised" =>
              /\ rt_calls = rt_tries
              /\ Len(rt_sleeps) = rt_tries - 1
              /\ rt_result = rt_script[rt_tries]

\* three attempts, a different retryable failure on the last one, raised
RetryExhaustionWitness ==
    /\ EveryAttemptFails /\ rt_tries = 3 /\ rt_state = "raised"
    /\ rt_script[3] # rt_script[2]
    /\ rt_sleeps = <<9, 18>>

(***************************************************************************)
(* C19: pagination always terminates: for any provider behaviour, also one *)
(* that returns a continuation token on every response with empty or short *)
(* pages, at most 25 pages are fetched for one query and the pagination of *)
(* the query then ends; a response without token ends it normally.         *)
(***************************************************************************)
\* the pagination of a query is under way (paginate_text_search in app.py,
\* the while True loop in scraper.py)
Paginating == pc \in {"paginate", "places"}

\* C19: no more than 25 pages are fetched for a query and the pagination of
\* every query comes to an end
PaginationTerminates ==
    /\ [](pages <= 25)
    /\ (Paginating ~> ~Paginating)

\* paginate_text_search of app.py ends, after 25 pages at the latest, and a
\* response without token makes it return, not raise
AppPaginationTerminates ==
    /\ [](pages <= 25)
    /\ ((prog = "app" /\ Paginating) ~> ~Paginating)
    /\ [][(pg_state = "loop" /\ pages' = pages + 1 /\ ~token') => pg_state' = "returned"]_vars

(***************************************************************************)
(* C20: when a page text contains matches for several heuristics, the      *)
(* years come from the first heuristic in the fixed order "N years (of)    *)
(* experience" > "over N years" > "since YYYY" > "practicing since YYYY",  *)
(* wherever each match occurs in the text ("since 2010 ... 15 years of     *)
(* experience" resolves to 15).                                            *)
(***************************************************************************)
\* the value a match stands for
ValueOf(tok, now) ==
    IF tok.k \in {"num1", "num2"} THEN tok.n ELSE _infer_years_from_year(tok.n, now)

\* the years of the first heuristic, in the fixed order, that has a match
ByHeuristicOrder(text, now) ==
    LET at(k) == Search(text, {k})
    IN  IF at("num1") # 0 THEN ValueOf(text[at("num1")], now)
        ELSE IF at("num2") # 0 THEN ValueOf(text[at("num2")], now)
        ELSE IF at("year1") # 0 THEN ValueOf(text[at("year1")], now)
        ELSE IF at("year2") # 0 THEN ValueOf(text[at("year2")], now)
        ELSE NoneInt

\* C20: the years extracted from a text with matches for two heuristics are
\* those of the heuristic that comes first in the fixed order
HeuristicOrder ==
    (ex_out # PendingOut /\ ex_text \in MixedTexts) =>
        ex_out.years = ByHeuristicOrder(ex_text, ex_now)

\* what the alternation of EXP_PAT gives: the match that comes first in the
\* text
LeftmostMatch ==
    (ex_out # PendingOut /\ ex_text \in MixedTexts) =>
        ex_out.years = ValueOf(ex_text[1], ex_now)

(***************************************************************************)
(* C21: as soon as both email and years_of_experience are resolved, for    *)
(* every resolved value including years = 0, crawl_doctor_site fetches no  *)
(* further subpage; when the homepage resolves both, no subpage is         *)
(* fetched.                                                                *)
(***************************************************************************)
BothResolved == cr_pc = "links" /\ Truthy(cr_email) /\ cr_years # NoneInt

\* C21: no page is fetched in a step taken with both fields resolved
ShortCircuit == [][BothResolved => cr_nfetch' = cr_nfetch]_vars

\* with years other than 0 the loop is left at once
ShortCircuitNonZero == [][(BothResolved /\ cr_years # 0) => cr_nfetch' = cr_nfetch]_vars

(***************************************************************************)
(* C22: within one crawl no URL is fetched twice and no fetched page is    *)
(* more than one hop from the homepage: the subpage URLs visited hold no   *)
(* duplicates and never the homepage URL itself, and links found on        *)
(* subpages are never followed.                                            *)
(***************************************************************************)
\* link 0 is the URL of the homepage
HomepageUrl == 0

\* C22: the homepage URL is not among the subpages visited, every visited
\* URL is a link of the homepage, and every fetch but the first is the
\* first fetch of its URL
NoRevisitOneHop ==
    /\ HomepageUrl \notin cr_visited
    /\ cr_visited \subseteq cr_links
    /\ cr_pc \in {"links", "done", "raised"} => cr_nfetch = Cardinality(cr_visited) + 1

\* the part of C22 about the links: only links of the homepage are fetched,
\* each of them once
OneHopOnly ==
    /\ cr_visited \subseteq cr_links
    /\ cr_pc \in {"links", "done", "raised"} => cr_nfetch = Cardinality(cr_visited) + 1

(***************************************************************************)
(* C23: a subpage fetch failure or parse failure is skippable: the crawl   *)
(* continues with the remaining candidate subpages, and every field        *)
(* already resolved from the homepage or an earlier subpage is still       *)
(* present, unchanged, in the crawl result delivered to the pipeline.      *)
(***************************************************************************)
\* the step of the crawl in which the subpage behind link is taken up
VisitsSubpage(link) == cr_pc = "links" /\ cr_visited' = cr_visited \cup {link} /\ link \notin cr_visited

FetchFails(page) == page.resp \in {"status", "empty", "error"}
ParseFails(page) == page.resp = "unparsable"

\* C23: after a subpage that cannot be fetched or parsed the crawl is still
\* in its loop, and what the pipeline would be handed holds every field as
\* it was before that subpage
SubpageFailureSkippable ==
    [][\A link \in cr_links :
          (VisitsSubpage(link) /\ (FetchFails(SubPage(cr_site, link)) \/ ParseFails(SubPage(cr_site, link)))) =>
              /\ cr_pc' = "links"
              /\ cr_email' = cr_email /\ cr_years' = cr_years
              /\ (IF cr_pc' = "raised" THEN [email |-> None, years_of_experience |-> NoneInt]
                  ELSE [email |-> cr_email', years_of_experience |-> cr_years']) = CrResult]_vars

\* the part of C23 about fetch failures: a subpage that cannot be fetched
\* is passed over
SubpageFetchFailureSkippable ==
    [][\A link \in cr_links :
          (VisitsSubpage(link) /\ FetchFails(SubPage(cr_site, link))) =>
              /\ cr_pc' = "links"
              /\ cr_email' = cr_email /\ cr_years' = cr_years]_vars

\* a field resolved on the homepage is lost to the pipeline
LostToPipeline == cr_pc = "raised" /\ Truthy(cr_email) /\ CrDelivered.email = None

(***************************************************************************)
(* C24: pool bounds follow the configuration: at every moment the number   *)
(* of detail fetches in flight is at most details_threads and the number   *)
(* of crawls in flight is at most crawl_threads of the selected preset.    *)
(***************************************************************************)
\* C24: no more futures are running in a pool than the preset allows for
\* its stage
PoolBounds ==
    /\ pl_stage = "details" => pl_running <= details_threads(pl_preset)
    /\ pl_stage = "crawls" => pl_running <= crawl_threads(pl_preset)

\* the details pool keeps to details_threads and the crawl pool to 12
PoolBoundsAsBuilt ==
    /\ pl_stage = "details" => pl_running <= details_threads(pl_preset)
    /\ pl_stage = "crawls" => pl_running <= CrawlPoolSize

(***************************************************************************)
(* C25: the seen-file of an area only grows, and every id admitted in a    *)
(* run is written to it before detail resolution starts, so that no later  *)
(* run for the area admits the id again.                                   *)
(***************************************************************************)
\* the run of app.py is past the write of the seen-file
PastCacheWrite == prog = "app" /\ pc \in {"details", "crawls", "done"}

\* C25: once detail resolution has started, every id admitted in the run is
\* in the seen-file, and no step takes an id out of the file
SeenFilePersists ==
    PastCacheWrite => Range(fetched_places) \subseteq cache_file

\* the ids admitted in the run are in cached_ids, the set in memory, once
\* detail resolution has started, whatever became of the write
AdmittedInMemory ==
    PastCacheWrite => Range(fetched_places) \subseteq cached_ids

\* no step of a run takes an id out of the seen-file
SeenFileOnlyGrows == [][prog = "app" => cache_file \subseteq cache_file']_vars

\* detail resolution has started for an id that is not in the seen-file
AdmittedNotPersisted ==
    /\ PastCacheWrite
    /\ \E id \in Range(fetched_places) : id \notin cache_file /\ det_state[id] # "none"

(***************************************************************************)
(* C26: when a page fetch of a query term fails for good after an earlier  *)
(* page of the term succeeded, no candidate of the earlier pages is        *)
(* admitted: the aborted term contributes nothing to the run.              *)
(***************************************************************************)
\* the pagination of the current term of app.py has not returned
TermOpen == prog = "app" /\ pc = "paginate" /\ pg_state \in {"loop", "raised"}

\* C26: from the start of a term until its pagination returns, and through
\* the step that ends a term whose pagination raised, seen and
\* fetched_places stay as they were at the start of the term, and the pages
\* the term had fetched are dropped
AbortedTermAdmitsNothing ==
    /\ [][TermOpen => (seen' = seen /\ fetched_places' = fetched_places)]_vars
    /\ [][(TermOpen /\ pg_state = "raised") => (pc' = "search" /\ results' = <<>>)]_vars

\* a page fetch raised after a page of the term had brought an id that the
\* run could have admitted
AbortedAfterPage ==
    /\ prog = "app" /\ pc = "paginate" /\ pg_state = "raised"
    /\ pages >= 1
    /\ Len(fetched_places) < TargetTotal
    /\ \E i \in 1..Len(PaginateResult) : PaginateResult[i] \notin (seen \cup cached_ids)

=============================================================================
